---- MODULE Spec2Model ----
(***************************************************************************)
(* A model of the kratos device client (src/kratos.go): construction       *)
(* (ClientFactory.New / createConnection / createError), the ping          *)
(* watchdog (pingHandler.checkPing), the read loop (client.read), the      *)
(* send path (client.Send) and client.Close, as goroutines interleaving    *)
(* over one websocket connection.                                          *)
(*                                                                         *)
(* Strings that the code manipulates (URLs) are sequences of one-character *)
(* strings.  Time is counted in ping periods (pingPeriod, 270 s).         *)
(***************************************************************************)
EXTENDS Integers, Sequences, FiniteSets, TLC

\* ------------------------------------------------------------------ bounds

\* Number of application goroutines that call Send concurrently.
NumCallers == 1

\* Longest handler list a ClientFactory is given.
MaxHandlers == 2

\* The clock stops advancing after this many ping periods.
MaxTime == 2

\* ------------------------------------------------------- program constants

\* pingPeriod = (pongWait * 9) / 10, the unit of the clock.  The read deadline
\* (pongWait, 10/9 of a period) is not on this clock: its expiry is one of the
\* errors ReadMessage returns.
pingPeriod == 1

StatusDeviceDisconnected == 523

StatusDeviceTimeout == 524

\* http.StatusTemporaryRedirect
StatusTemporaryRedirect == 307

\* ------------------------------------------------------------------ strings

\* strings.HasPrefix(s, p)
HasPrefix(s, p) ==
    /\ Len(p) <= Len(s)
    /\ SubSeq(s, 1, Len(p)) = p

\* strings.Index(s, old): the first position at which old occurs in s, 0 if none.
Index(s, old) ==
    LET hits == {i \in 1..(Len(s) - Len(old) + 1) : SubSeq(s, i, i + Len(old) - 1) = old}
    IN  IF hits = {} THEN 0
        ELSE CHOOSE i \in hits : \A j \in hits : i <= j

\* strings.Replace(s, old, new, 1) for a non-empty old.
ReplaceFirst(s, old, new) ==
    LET i == Index(s, old)
    IN  IF i = 0 THEN s
        ELSE SubSeq(s, 1, i - 1) \o new \o SubSeq(s, i + Len(old), Len(s))

HTTP == <<"h", "t", "t", "p">>

WS == <<"w", "s">>

\* "/api/v2/device"
DeviceSuffix == <<"/", "a", "p", "i", "/", "v", "2", "/", "d", "e", "v", "i", "c", "e">>

\* "http://h:1/p"
LocPlain == <<"h", "t", "t", "p", ":", "/", "/", "h", ":", "1", "/", "p">>

\* "https://g:2"
LocTLS == <<"h", "t", "t", "p", "s", ":", "/", "/", "g", ":", "2">>

\* "/p" : a Location that is a relative reference (the HTTP client resolves
\* and follows it; the header itself names no scheme)
LocRelative == <<"/", "p">>

\* The Location header values a response carries; <<>> is an absent header
\* (Header.Get returns "").
Locations == {<<>>, LocPlain, LocTLS, LocRelative}

\* ------------------------------------------------------- handler patterns

\* Destinations are paths, sequences of segments: <<"bar", "foo">> is /bar/foo.
Dests == {<<"bar">>, <<"bar", "foo">>}

\* Handler keys: a literal path, ".*", or "(" (which regexp.Compile rejects).
KeyFoo == [kind |-> "lit", path |-> <<"foo">>]

KeyAny == [kind |-> "any", path |-> <<>>]

KeyBad == [kind |-> "bad", path |-> <<>>]

HandlerKeys == {KeyFoo, KeyAny, KeyBad}

\* regexp.Compile(key) succeeds
Compiles(key) == key.kind # "bad"

\* keyRegex.MatchString(dest): an unanchored match, so a literal matches every
\* destination that contains it.
MatchString(key, dest) ==
    \/ key.kind = "any"
    \/ /\ key.kind = "lit"
       /\ Index(dest, key.path) # 0

\* All sequences over S of length at most n.
SeqsUpTo(S, n) == UNION {[1..k -> S] : k \in 0..n}

\* ------------------------------------------------------------ HTTP values

\* The identity headers createConnection puts on the dial (headers.Add) and on
\* the discovery request (req.Header.Set).
DialHeaderNames ==
    {"X-Webpa-Device-Name", "X-Webpa-Firmware-Name", "X-Webpa-Model-Name", "X-Webpa-Manufacturer"}

GetHeaderNames == {"X-Webpa-Device-Name"}

NoBody == [kind |-> "none", code |-> 0, message |-> ""]

GarbageBody == [kind |-> "garbage", code |-> 0, message |-> ""]

JSONBody(c, m) == [kind |-> "json", code |-> c, message |-> m]

\* Response bodies: absent, not JSON, and JSON objects {code, message}.
Bodies ==
    {NoBody, GarbageBody, JSONBody(404, "not found"), JSONBody(404, ""), JSONBody(0, "busy")}

\* resp.Request.Response == nil
NilResponse == [isNil |-> TRUE, status |-> 0, location |-> <<>>]

\* The redirect response the HTTP client followed to obtain the final one.
PriorResponses ==
    {[isNil |-> FALSE, status |-> s, location |-> l] :
        s \in {302, StatusTemporaryRedirect}, l \in Locations \ {<<>>}}

FinalStatuses == {200, StatusTemporaryRedirect, 404, StatusDeviceDisconnected, StatusDeviceTimeout}

\* What client.Do(req) returns without error.  net/http's client follows a
\* redirect that carries a Location, so a final 307 has none, and a prior
\* response (resp.Request.Response) is a redirect that had one.
DoResponses ==
    {r \in [status : FinalStatuses, location : Locations, body : Bodies,
            prior : {NilResponse} \cup PriorResponses] :
        r.status = StatusTemporaryRedirect => r.location = <<>>}

NoResp == [status |-> 0, location |-> <<>>, body |-> NoBody, prior |-> NilResponse]

\* http.StatusText(code): "" for a code net/http does not know.
StatusText(code) ==
    CASE code = 200 -> "OK"
      [] code = 302 -> "Found"
      [] code = 307 -> "Temporary Redirect"
      [] code = 404 -> "Not Found"
      [] OTHER -> ""

\* json.Unmarshal(data, &msg): msg keeps its zero value unless the body is JSON.
Unmarshal(body) ==
    IF body.kind = "json" THEN [Code |-> body.code, Message |-> body.message]
    ELSE [Code |-> 0, Message |-> ""]

\* The text createError substitutes for an empty message.
DefaultMessage(status, msg) ==
    CASE status = StatusDeviceDisconnected -> "ErrorDeviceBusy"
      [] status = StatusDeviceTimeout ->
            "ErrorTransactionsClosed/ErrorTransactionsAlreadyClosed/ErrorDeviceClosed"
      [] OTHER -> StatusText(msg.Code)

\* createError(resp, err)
createError(r, subError) ==
    LET msg == Unmarshal(r.body)
        filled == IF msg.Message = ""
                  THEN [msg EXCEPT !.Message = DefaultMessage(r.status, msg)]
                  ELSE msg
    IN  [kind |-> "Error", Message |-> filled, SubError |-> subError]

\* device.ParseID(name) returns an error: a mutant that never does.
ParseIDAcceptsAll(name) == FALSE

\* device.ParseID(name) returns an error.
ParseIDFails(name) == name = "invalid"

\* An error that is not the package's Error type.
PlainError(kind, text) ==
    [kind |-> kind, Message |-> [Code |-> 0, Message |-> ""], SubError |-> text]

NoErr == PlainError("nil", "")

\* The redirect test of createConnection.
IsRedirect(r) ==
    \/ r.status = StatusTemporaryRedirect
    \/ r.prior.status = StatusTemporaryRedirect

\* The Location createConnection takes the URL from.
PickLocation(r) ==
    IF r.location # <<>> THEN r.location ELSE r.prior.location

\* wsURL = strings.Replace(location, "http", "ws", 1) + "/api/v2/device"
ConnectURL(location) == ReplaceFirst(location, HTTP, WS) \o DeviceSuffix

\* websocket.Dialer.Dial rejects a URL whose scheme is neither ws nor wss.
Dialable(url) ==
    \/ HasPrefix(url, <<"w", "s", ":", "/", "/">>)
    \/ HasPrefix(url, <<"w", "s", "s", ":", "/", "/">>)

\* -------------------------------------------------------------------- state

Callers == 1..NumCallers

VARIABLES
    deviceName,     \* ClientFactory.DeviceName: "valid" or "invalid" for device.ParseID
    handlers,       \* ClientFactory.Handlers: the sequence of handler keys
    newPc,          \* position of ClientFactory.New
    resp,           \* the discovery response createConnection holds
    newErr,         \* the error New returned (NoErr while it has returned none)
    httpGets,       \* discovery requests sent (client.Do calls)
    dials,          \* dialer.Dial calls
    getHeaders,     \* header names on the discovery request
    dialHeaders,    \* header names on the dial
    wsURL,          \* the URL given to dialer.Dial
    hostname,       \* client.hostname
    connOpen,       \* a websocket connection exists and has not been closed
    closeSent,      \* a close frame has been written to the connection
    wdPc,           \* position of pingHandler.checkPing
    wdWrOK,         \* the watchdog is in a write that began while the connection took writes
    stopCh,         \* pingHandler.stop: "open" or "closed"
    timerAt,        \* when pingTimer fires
    timerFired,     \* the one value of pingTimer.C has been received
    pings,          \* ping frames written
    probeAt,        \* when the last ping frame was written (-1: none)
    pingMissCalls,  \* calls of pingHandler.handlePingMiss
    closePc,        \* position of the owner's client.Close call
    readPc,         \* position of client.read
    curMsg,         \* destination of the message being dispatched (<<>>: none)
    invoked,        \* HandleMessage calls made for curMsg, in order
    acked,          \* the pong handler has run since the last ping was written
    sendPc,         \* per caller: position of client.Send
    sendRes,        \* per caller: what the last Send returned
    sendWrOK,       \* per caller: in a write that began while the connection took writes
    sendAfterClose, \* per caller: the Send call began after Close had returned
    sendAfterExit,  \* per caller: the Send call began after read had returned
    sendWrites,     \* per caller: WriteMessage calls made by the current Send call
    now,            \* the clock
    panic           \* the panic that ended the process ("" while it runs)

factoryVars == <<deviceName, handlers>>

newVars == <<newPc, resp, newErr, httpGets, dials, getHeaders, dialHeaders, wsURL, hostname>>

connVars == <<connOpen, closeSent>>

wdVars == <<wdPc, wdWrOK, stopCh, timerAt, timerFired, pings, probeAt, pingMissCalls>>

readVars == <<readPc, curMsg, invoked, acked>>

sendVars == <<sendPc, sendRes, sendWrOK, sendAfterClose, sendAfterExit, sendWrites>>

vars ==
    <<factoryVars, newVars, connVars, wdVars, closePc, readVars, sendVars, now, panic>>

Init ==
    /\ deviceName \in {"valid", "invalid"}
    /\ handlers \in SeqsUpTo(HandlerKeys, MaxHandlers)
    /\ newPc = "createConnection"
    /\ resp = NoResp
    /\ newErr = NoErr
    /\ httpGets = 0
    /\ dials = 0
    /\ getHeaders = {}
    /\ dialHeaders = {}
    /\ wsURL = <<>>
    /\ hostname = <<>>
    /\ connOpen = FALSE
    /\ closeSent = FALSE
    /\ wdPc = "off"
    /\ wdWrOK = FALSE
    /\ stopCh = "open"
    /\ timerAt = 0
    /\ timerFired = FALSE
    /\ pings = 0
    /\ probeAt = -1
    /\ pingMissCalls = 0
    /\ closePc = "idle"
    /\ readPc = "off"
    /\ curMsg = <<>>
    /\ invoked = <<>>
    /\ acked = FALSE
    /\ sendPc = [c \in Callers |-> "idle"]
    /\ sendRes = [c \in Callers |-> "none"]
    /\ sendWrOK = [c \in Callers |-> FALSE]
    /\ sendAfterClose = [c \in Callers |-> FALSE]
    /\ sendAfterExit = [c \in Callers |-> FALSE]
    /\ sendWrites = [c \in Callers |-> 0]
    /\ now = 0
    /\ panic = ""

runtimeVars == <<connVars, wdVars, closePc, readVars, sendVars, now>>

\* New returns (nil, err).
NewFails(err) ==
    /\ newPc' = "failed"
    /\ newErr' = err

\* ------------------------------------------------------------- construction

\* createConnection up to the discovery request: device.ParseID, the optional
\* tls.LoadX509KeyPair, http.NewRequest.  A destination URL that NewRequest
\* rejects leaves req nil, and req.Header.Set dereferences it.
CreateConnection ==
    /\ newPc = "createConnection"
    /\ panic = ""
    /\ \E crtFile \in {"", "crt"}, keyFile \in {"", "key"}, loadOK \in BOOLEAN, urlOK \in BOOLEAN :
          IF ParseIDFails(deviceName)
          THEN /\ NewFails(PlainError("ParseID", "invalid device name"))
               /\ UNCHANGED <<getHeaders, panic>>
          ELSE IF crtFile # "" /\ keyFile # "" /\ ~loadOK
          THEN /\ NewFails(PlainError("LoadX509KeyPair", "tls: failed to load key pair"))
               /\ UNCHANGED <<getHeaders, panic>>
          ELSE IF ~urlOK
          THEN /\ panic' = "nil pointer dereference"
               /\ UNCHANGED <<newPc, newErr, getHeaders>>
          ELSE /\ newPc' = "do"
               /\ getHeaders' = GetHeaderNames
               /\ UNCHANGED <<newErr, panic>>
    /\ UNCHANGED <<factoryVars, resp, httpGets, dials, dialHeaders, wsURL, hostname, runtimeVars>>

\* resp, err := client.Do(req): the discovery GET, and the error return.
Discover ==
    /\ newPc = "do"
    /\ panic = ""
    /\ httpGets' = httpGets + 1
    /\ \/ /\ NewFails(PlainError("Do", "Get: transport error"))
          /\ UNCHANGED resp
       \/ /\ \E r \in DoResponses : resp' = r
          /\ newPc' = "classify"
          /\ UNCHANGED newErr
    /\ UNCHANGED <<factoryVars, dials, getHeaders, dialHeaders, wsURL, hostname, runtimeVars, panic>>

\* The nil check, the redirect test and the non-redirect branch of
\* createConnection.
Classify ==
    /\ newPc = "classify"
    /\ panic = ""
    /\ IF resp.prior.isNil
       THEN /\ NewFails(PlainError("errors.New", "Petasos response is nil!"))
            /\ UNCHANGED wsURL
       ELSE IF IsRedirect(resp)
       THEN /\ wsURL' = ConnectURL(PickLocation(resp))
            /\ newPc' = "dial"
            /\ UNCHANGED newErr
       ELSE /\ NewFails(createError(resp, "Received invalid response from petasos!"))
            /\ UNCHANGED wsURL
    /\ UNCHANGED <<factoryVars, resp, httpGets, dials, getHeaders, dialHeaders, hostname,
                   runtimeVars, panic>>

\* connection, resp, err = dialer.Dial(wsURL, headers) and its error return.
Dial ==
    /\ newPc = "dial"
    /\ panic = ""
    /\ dials' = dials + 1
    /\ dialHeaders' = DialHeaderNames
    /\ \/ /\ NewFails(PlainError("Dial", "websocket: bad handshake"))
          /\ UNCHANGED connOpen
       \/ /\ Dialable(wsURL)
          /\ connOpen' = TRUE
          /\ newPc' = "new"
          /\ UNCHANGED newErr
    /\ UNCHANGED <<factoryVars, resp, httpGets, getHeaders, wsURL, hostname, closeSent,
                   wdVars, closePc, readVars, sendVars, now, panic>>

\* The rest of New once createConnection has returned a connection: the read
\* deadline and pong handler (see Pong), the client value, regexp.Compile of every handler
\* key, and the two go statements.
NewClient ==
    /\ newPc = "new"
    /\ panic = ""
    /\ hostname' = wsURL
    /\ resp' = NoResp
    /\ IF \E i \in 1..Len(handlers) : ~Compiles(handlers[i])
       THEN /\ NewFails(PlainError("regexp.Compile", "error parsing regexp"))
            /\ UNCHANGED <<wdPc, timerAt, readPc>>
       ELSE /\ newPc' = "running"
            /\ wdPc' = "select"
            /\ timerAt' = now + pingPeriod
            /\ readPc' = "read"
            /\ UNCHANGED newErr
    /\ UNCHANGED <<factoryVars, httpGets, dials, getHeaders, dialHeaders, wsURL, connOpen,
                   closeSent, wdWrOK, stopCh, timerFired, pings, probeAt, pingMissCalls,
                   closePc, curMsg, invoked, acked, sendVars, now, panic>>

\* ------------------------------------------------------------------ runtime

Running == newPc = "running" /\ panic = ""

\* The goroutines inside conn.WriteMessage.
Writers ==
    {c \in Callers : sendPc[c] = "writing"}
        \cup (IF wdPc \in {"ping", "close"} THEN {0} ELSE {})

\* A write that begins now can reach the wire.
Writable == connOpen /\ ~closeSent

\* A ping period passes.  The clock is read only through pingTimer, which
\* checkPing's deferred function stops.
Tick ==
    /\ Running
    /\ wdPc # "done"
    /\ now < MaxTime
    /\ now' = now + 1
    /\ UNCHANGED <<factoryVars, newVars, connVars, wdVars, closePc, readVars, sendVars, panic>>

\* ---- pingHandler.checkPing

\* case <-pmh.stop: the receive that lets stopPingHandler's send complete, so
\* that Close returns.
CheckPingStop ==
    /\ Running
    /\ wdPc = "select"
    /\ stopCh = "open"
    /\ closePc = "sending"
    /\ wdPc' = "stopping"
    /\ closePc' = "returned"
    /\ UNCHANGED <<factoryVars, newVars, connVars, wdWrOK, stopCh, timerAt, timerFired, pings,
                   probeAt, pingMissCalls, readVars, sendVars, now, panic>>

\* A stop case that returns without writing the close frame.
CheckPingNoCloseFrame ==
    /\ Running
    /\ wdPc = "stopping"
    /\ wdPc' = "defer"
    /\ UNCHANGED <<factoryVars, newVars, connVars, wdWrOK, stopCh, timerAt, timerFired, pings,
                   probeAt, pingMissCalls, closePc, readVars, sendVars, now, panic>>

\* pmh.conn.WriteMessage(websocket.CloseMessage, []byte{}) begins.
CheckPingCloseFrame ==
    /\ Running
    /\ wdPc = "stopping"
    /\ wdPc' = "close"
    /\ wdWrOK' = Writable
    /\ UNCHANGED <<factoryVars, newVars, connVars, stopCh, timerAt, timerFired, pings,
                   probeAt, pingMissCalls, closePc, readVars, sendVars, now, panic>>

\* The close frame's write ends; its result is dropped and checkPing returns.
CheckPingCloseDone ==
    /\ Running
    /\ wdPc = "close"
    /\ wdPc' = "defer"
    /\ \E ok \in BOOLEAN :
          /\ ok => wdWrOK
          /\ closeSent' = (closeSent \/ ok)
    /\ wdWrOK' = FALSE
    /\ UNCHANGED <<factoryVars, newVars, connOpen, stopCh, timerAt,
                   timerFired, pings, probeAt, pingMissCalls, closePc, readVars, sendVars,
                   now, panic>>

\* case <-pingTimer.C: the timer's one value is received, the write deadline is
\* set and the ping write begins.  pingTimer is a time.Timer that is never Reset.
CheckPingTimer ==
    /\ Running
    /\ wdPc = "select"
    /\ ~timerFired
    /\ now >= timerAt
    /\ timerFired' = TRUE
    /\ wdPc' = "ping"
    /\ wdWrOK' = Writable
    /\ UNCHANGED <<factoryVars, newVars, connVars, stopCh, timerAt, pings, probeAt,
                   pingMissCalls, closePc, readVars, sendVars, now, panic>>

\* The ping write ends: back to the select, or return on an error.
CheckPingWritten ==
    /\ Running
    /\ wdPc = "ping"
    /\ \E ok \in BOOLEAN :
          /\ ok => wdWrOK
          /\ IF ok
             THEN /\ wdPc' = "select"
                  /\ pings' = pings + 1
                  /\ probeAt' = now
                  /\ acked' = FALSE
             ELSE /\ wdPc' = "defer"
                  /\ UNCHANGED <<pings, probeAt, acked>>
    /\ wdWrOK' = FALSE
    /\ UNCHANGED <<factoryVars, newVars, connVars, stopCh, timerAt, timerFired,
                   pingMissCalls, closePc, readPc, curMsg, invoked, sendVars, now, panic>>

\* checkPing's deferred function: pingTimer.Stop(), pmh.conn.Close(),
\* close(pmh.stop).
CheckPingDefer ==
    /\ Running
    /\ wdPc = "defer"
    /\ wdPc' = "done"
    /\ connOpen' = FALSE
    /\ stopCh' = "closed"
    /\ UNCHANGED <<factoryVars, newVars, closeSent, wdWrOK, timerAt, timerFired,
                   pings, probeAt, pingMissCalls, closePc, readVars, sendVars, now, panic>>

\* ---- client.Close

\* The owner calls Close: stopPingHandler reaches pmh.stop <- true.
Close ==
    /\ Running
    /\ closePc = "idle"
    /\ closePc' = "sending"
    /\ UNCHANGED <<factoryVars, newVars, connVars, wdVars, readVars, sendVars, now, panic>>

\* pmh.stop <- true on a closed channel (closed before the send or while it
\* blocks) panics.
StopPingHandlerPanic ==
    /\ Running
    /\ closePc = "sending"
    /\ stopCh = "closed"
    /\ panic' = "send on closed channel"
    /\ UNCHANGED <<factoryVars, newVars, connVars, wdVars, closePc, readVars, sendVars, now>>

\* ---- client.read

\* A read that returns without closing the connection.
ReadReturnsLeavesOpen ==
    /\ readPc' = "done"
    /\ UNCHANGED connOpen

\* c.connection.Close(), deferred by read.
ReadReturns ==
    /\ readPc' = "done"
    /\ connOpen' = FALSE

\* ReadMessage can deliver a frame.
Readable == connOpen

\* A pong arrives while ReadMessage waits: the pong handler runs (it moves the
\* read deadline and returns nil).  acked tells whether that has happened
\* since the last ping was written.
Pong ==
    /\ Running
    /\ readPc = "read"
    /\ Readable
    /\ acked' = (probeAt >= 0)
    /\ UNCHANGED <<factoryVars, newVars, connVars, wdVars, closePc, readPc, curMsg,
                   invoked, sendVars, now, panic>>

\* ReadMessage returns an error (the connection is closed, the deadline has
\* passed, the peer is gone): read returns.
ReadError ==
    /\ Running
    /\ readPc = "read"
    /\ ReadReturns
    /\ UNCHANGED <<factoryVars, newVars, closeSent, wdVars, closePc, curMsg,
                   invoked, acked, sendVars, now, panic>>

\* ReadMessage returns a frame that wrp's decoder rejects: read returns.
ReadUndecodable ==
    /\ Running
    /\ readPc = "read"
    /\ Readable
    /\ ReadReturns
    /\ UNCHANGED <<factoryVars, newVars, closeSent, wdVars, closePc, curMsg,
                   invoked, acked, sendVars, now, panic>>

\* A handler loop that stops at the first match.
HandleFirstMatch(calls, i, msg) ==
    IF MatchString(handlers[i], msg) /\ calls = <<>>
    THEN Append(calls, [handler |-> i, msg |-> msg])
    ELSE calls

\* What one iteration of the handler loop adds to the calls made:
\* HandleMessage(wrpData) if the key matches.
Handle(calls, i, msg) ==
    IF MatchString(handlers[i], msg)
    THEN Append(calls, [handler |-> i, msg |-> msg])
    ELSE calls

\* for i := ...; i < len(c.handlers); i++ : the calls made from iteration i on.
RECURSIVE HandleFrom(_, _, _)
HandleFrom(calls, i, msg) ==
    IF i > Len(handlers) THEN calls
    ELSE HandleFrom(Handle(calls, i, msg), i + 1, msg)

\* ReadMessage returns a frame that decodes to a message for dest, and the
\* handler loop runs over it (handlers are called on the read loop's
\* goroutine and return).
ReadMessage ==
    /\ Running
    /\ readPc = "read"
    /\ Readable
    /\ \E dest \in Dests :
          /\ curMsg' = dest
          /\ invoked' = HandleFrom(<<>>, 1, dest)
    /\ readPc' = "dispatched"
    /\ UNCHANGED <<factoryVars, newVars, connVars, wdVars, closePc, acked, sendVars, now,
                   panic>>

\* The loop body ends and read goes back to ReadMessage; wrpData goes out of
\* scope.
Dispatched ==
    /\ Running
    /\ readPc = "dispatched"
    /\ readPc' = "read"
    /\ curMsg' = <<>>
    /\ invoked' = <<>>
    /\ UNCHANGED <<factoryVars, newVars, connVars, wdVars, closePc, acked, sendVars, now,
                   panic>>

\* ---- client.Send

\* An encoder error that does not keep Send from writing.
SendEncodeErrorIgnored(c) ==
    /\ sendRes' = [sendRes EXCEPT ![c] = "encodeErr"]
    /\ sendPc' = [sendPc EXCEPT ![c] = "writing"]
    /\ sendWrOK' = [sendWrOK EXCEPT ![c] = Writable]
    /\ sendWrites' = [sendWrites EXCEPT ![c] = 1]

\* Encode returned an error: err != nil, the write is skipped and Send returns
\* the encoder's error.
SendEncodeError(c) ==
    /\ sendRes' = [sendRes EXCEPT ![c] = "encodeErr"]
    /\ sendWrites' = [sendWrites EXCEPT ![c] = 0]
    /\ UNCHANGED <<sendPc, sendWrOK>>

\* err == nil: c.connection.WriteMessage(websocket.BinaryMessage, ...) begins.
SendWrite(c) ==
    /\ sendPc' = [sendPc EXCEPT ![c] = "writing"]
    /\ sendWrOK' = [sendWrOK EXCEPT ![c] = Writable]
    /\ sendWrites' = [sendWrites EXCEPT ![c] = 1]
    /\ sendRes' = [sendRes EXCEPT ![c] = "none"]

\* Send is called: the message is encoded and, unless encoding failed,
\* WriteMessage begins.
Send(c) ==
    /\ Running
    /\ sendPc[c] = "idle"
    /\ sendAfterClose' = [sendAfterClose EXCEPT ![c] = (closePc = "returned")]
    /\ sendAfterExit' = [sendAfterExit EXCEPT ![c] = (readPc = "done")]
    /\ \E encoded \in BOOLEAN :
          IF encoded THEN SendWrite(c) ELSE SendEncodeError(c)
    /\ UNCHANGED <<factoryVars, newVars, connVars, wdVars, closePc, readVars, now, panic>>

\* WriteMessage returns and Send returns its result.
SendReturns(c) ==
    /\ Running
    /\ sendPc[c] = "writing"
    /\ sendPc' = [sendPc EXCEPT ![c] = "idle"]
    /\ \E ok \in BOOLEAN :
          /\ ok => sendWrOK[c]
          /\ sendRes' = [sendRes EXCEPT ![c] = IF ok THEN "ok" ELSE "writeErr"]
    /\ sendWrOK' = [sendWrOK EXCEPT ![c] = FALSE]
    /\ UNCHANGED <<factoryVars, newVars, connVars, wdVars, closePc, readVars,
                   sendAfterClose, sendAfterExit, sendWrites, now, panic>>

\* Two goroutines inside WriteMessage at once: the websocket connection
\* supports one concurrent writer, and the library may panic on a second
\* ("concurrent write to websocket connection"); otherwise both writes go on.
ConcurrentWritePanic ==
    /\ Running
    /\ Cardinality(Writers) >= 2
    /\ panic' = "concurrent write to websocket connection"
    /\ UNCHANGED <<factoryVars, newVars, connVars, wdVars, closePc, readVars, sendVars, now>>

\* ------------------------------------------------------------ specification

Next ==
    \/ CreateConnection
    \/ Discover
    \/ Classify
    \/ Dial
    \/ NewClient
    \/ Tick
    \/ CheckPingStop
    \/ CheckPingCloseFrame
    \/ CheckPingCloseDone
    \/ CheckPingTimer
    \/ CheckPingWritten
    \/ CheckPingDefer
    \/ Close
    \/ StopPingHandlerPanic
    \/ Pong
    \/ ReadError
    \/ ReadUndecodable
    \/ ReadMessage
    \/ Dispatched
    \/ \E c \in Callers : Send(c)
    \/ \E c \in Callers : SendReturns(c)
    \/ ConcurrentWritePanic

Spec == Init /\ [][Next]_vars

\* ReadMessage on a closed connection returns an error.
ReadClosed == ~connOpen /\ ReadError

\* Every goroutine that can take a step is eventually scheduled, calls into the
\* library return, and a read or a send on a closed connection or channel fails.
\* The peer is not obliged to send anything, nor the owner to call anything.
Fairness ==
    /\ WF_vars(CreateConnection)
    /\ WF_vars(Discover)
    /\ WF_vars(Classify)
    /\ WF_vars(Dial)
    /\ WF_vars(NewClient)
    /\ WF_vars(CheckPingStop)
    /\ WF_vars(CheckPingCloseFrame)
    /\ WF_vars(CheckPingCloseDone)
    /\ WF_vars(CheckPingTimer)
    /\ WF_vars(CheckPingWritten)
    /\ WF_vars(CheckPingDefer)
    /\ WF_vars(StopPingHandlerPanic)
    /\ WF_vars(ReadClosed)
    /\ WF_vars(Dispatched)
    /\ WF_vars(\E c \in Callers : SendReturns(c))

FairSpec == Spec /\ Fairness

\* FairSpec with time passing: the clock keeps advancing while the watchdog
\* lives (up to the model's horizon), so a pending pingTimer does fire.
FairTimeSpec == FairSpec /\ WF_vars(Tick)

\* ------------------------------------------------------------------- claims

\* C1: once Close has returned, every Send call started afterwards returns an
\* error.
C1_SendAfterCloseFails ==
    \A c \in Callers : sendAfterClose[c] => sendRes[c] # "ok"

\* C2: at most one write to the connection is in progress at any time.
C2_WritesSerialized == Cardinality(Writers) <= 1

\* C3: with Close called at most once, nothing is sent on the stop channel
\* once it is closed, and Close does not panic.
C3_StopSignalledSafely ==
    /\ ~(closePc = "sending" /\ stopCh = "closed")
    /\ panic # "send on closed channel"

\* C4: after Close is called on a live client, eventually Close has returned,
\* the watchdog has stopped, the connection is closed and the read loop has
\* exited.
C4_CloseTearsDown ==
    (closePc = "sending" /\ wdPc \in {"select", "ping"} /\ connOpen)
        ~> (closePc = "returned" /\ wdPc = "done" /\ ~connOpen /\ readPc = "done")

\* The handlers among the first n whose key matches msg, in registration order.
MatchingHandlers(n, msg) ==
    SelectSeq([i \in 1..n |-> i], LAMBDA i : MatchString(handlers[i], msg))

\* C5: for a decoded message the read loop calls exactly the handlers whose
\* key matches its destination, once each, in registration order, each with
\* that message (none when no key matches or no handler is registered), and
\* then goes on to the next ReadMessage.
C5_DispatchAllMatching ==
    /\ readPc = "dispatched" =>
          LET want == MatchingHandlers(Len(handlers), curMsg)
          IN  /\ curMsg \in Dests
              /\ Len(invoked) = Len(want)
              /\ \A k \in 1..Len(want) :
                    invoked[k] = [handler |-> want[k], msg |-> curMsg]
    /\ readPc # "dispatched" => invoked = <<>>

\* C5 witness: the handler loop has run for a message that two of the
\* registered handlers matched, the first registered called first.
C5_Witness ==
    /\ readPc = "dispatched"
    /\ Len(invoked) = 2
    /\ invoked[1].handler < invoked[2].handler

\* C6: a full period after a ping with no pong in it, the watchdog (still
\* running) has called the miss callback once for each such period.
C6_MissCallbackPerPeriod ==
    (wdPc = "select" /\ probeAt >= 0 /\ ~acked)
        => pingMissCalls = (now - probeAt) \div pingPeriod

\* New has returned without a client.
NewFailed == newPc = "failed"

\* C7: with a handler key that does not compile, New returns an error and has
\* sent no discovery request, dialled nothing and left no connection open.
C7_BadPatternOpensNothing ==
    ((\E i \in 1..Len(handlers) : ~Compiles(handlers[i])) /\ newPc \in {"failed", "running"})
        => (NewFailed /\ httpGets = 0 /\ dials = 0 /\ ~connOpen)

\* C8: with a device name that device.ParseID rejects, New never gets past
\* createConnection's first check: it returns that error, no discovery request
\* is sent, nothing is dialled, no connection exists and no goroutine starts.
C8_BadDeviceNameNoNetwork ==
    deviceName = "invalid" =>
        /\ newPc \in {"createConnection", "failed"}
        /\ NewFailed => newErr.kind = "ParseID"
        /\ httpGets = 0
        /\ dials = 0
        /\ getHeaders = {}
        /\ ~connOpen
        /\ wdPc = "off"
        /\ readPc = "off"
        /\ panic = ""

\* C8 witness: New has returned the ParseID error.
C8_Witness ==
    /\ deviceName = "invalid"
    /\ NewFailed
    /\ newErr.kind = "ParseID"

\* The discovery responses C9 speaks of: no redirect in the final or the prior
\* response, no prior response, or a redirect whose Location is absent or not
\* an http(s) URL.
NotUsableRedirect(r) ==
    \/ r.prior.isNil
    \/ ~IsRedirect(r)
    \/ ~HasPrefix(PickLocation(r), HTTP)

\* createConnection has returned an error after receiving a response.
FailedAfterResponse == NewFailed /\ resp # NoResp

\* C9: a discovery response that is no usable redirect makes establishment
\* fail with the package's Error (built by createError), not with another error.
C9_ServerErrorOnBadResponse ==
    (resp # NoResp /\ NotUsableRedirect(resp) /\ newPc \notin {"classify", "dial"})
        => (NewFailed /\ newErr.kind = "Error")

\* The handshake ended in a response that is not a redirect and was not
\* reached through one.
EndsNonRedirect(r) ==
    /\ r.status # StatusTemporaryRedirect
    /\ r.prior.status # StatusTemporaryRedirect

\* C10: a non-redirect response yields an Error whose message is
\* "ErrorDeviceBusy" for 523 without body, the transactions-closed text for
\* 524 without body, and the body's message for a JSON body with a message.
C10_ErrorMessageByStatus ==
    (FailedAfterResponse /\ EndsNonRedirect(resp)) =>
        /\ (resp.status = StatusDeviceDisconnected /\ resp.body = NoBody)
              => (newErr.kind = "Error" /\ newErr.Message.Message = "ErrorDeviceBusy")
        /\ (resp.status = StatusDeviceTimeout /\ resp.body = NoBody)
              => /\ newErr.kind = "Error"
                 /\ newErr.Message.Message =
                        "ErrorTransactionsClosed/ErrorTransactionsAlreadyClosed/ErrorDeviceClosed"
        /\ (resp.body.kind = "json" /\ resp.body.message # "")
              => (newErr.kind = "Error" /\ newErr.Message.Message = resp.body.message)

\* C11: a non-redirect response whose body is absent or not JSON, with a status
\* other than 523 and 524, yields an Error whose message is the reason phrase
\* of the response's status code (404 gives "Not Found").  Stated for the
\* responses that reach createError (a redirect was followed before them).
C11_GenericReasonPhrase ==
    (/\ FailedAfterResponse
     /\ EndsNonRedirect(resp)
     /\ ~resp.prior.isNil
     /\ resp.body.kind \in {"none", "garbage"}
     /\ resp.status \notin {StatusDeviceDisconnected, StatusDeviceTimeout})
        => (newErr.kind = "Error" /\ newErr.Message.Message = StatusText(resp.status))

\* "ws://h:1/p/api/v2/device"
WsPlain ==
    <<"w", "s", ":", "/", "/", "h", ":", "1", "/", "p",
      "/", "a", "p", "i", "/", "v", "2", "/", "d", "e", "v", "i", "c", "e">>

\* "wss://g:2/api/v2/device"
WssTLS ==
    <<"w", "s", "s", ":", "/", "/", "g", ":", "2",
      "/", "a", "p", "i", "/", "v", "2", "/", "d", "e", "v", "i", "c", "e">>

\* The connect URL the handshake is to resolve from a redirect Location.
ExpectedConnectURL(location) ==
    IF location = LocPlain THEN WsPlain ELSE WssTLS

\* C12: when the 307 response that was followed carries the Location
\* http://h:1/p (https://g:2), the connect URL is ws://h:1/p/api/v2/device
\* (wss://g:2/api/v2/device) and the dial is made to exactly that URL.
C12_ConnectURLRewritten ==
    (/\ resp.prior.status = StatusTemporaryRedirect
     /\ resp.prior.location \in {LocPlain, LocTLS}
     /\ newPc # "classify")
        => (/\ newPc = "dial" \/ dials = 1
            /\ wsURL = ExpectedConnectURL(resp.prior.location))

\* C13: after a successful construction Hostname() is the host of the URL
\* that was dialled, without scheme, port or path.
C13_HostnameIsHostOnly ==
    newPc = "running" =>
        /\ wsURL = WsPlain => hostname = <<"h">>
        /\ wsURL = WssTLS => hostname = <<"g">>

\* C14: a Send call whose encoding fails returns the encoder's error and
\* writes nothing; otherwise it makes exactly one WriteMessage call and
\* returns that call's result; no call writes more than once.
C14_SendOneWrite ==
    \A c \in Callers :
        /\ sendWrites[c] <= 1
        /\ sendRes[c] = "encodeErr" => (sendWrites[c] = 0 /\ sendPc[c] = "idle")
        /\ sendPc[c] = "writing" => (sendWrites[c] = 1 /\ sendRes[c] = "none")
        /\ sendRes[c] \in {"ok", "writeErr"} => (sendWrites[c] = 1 /\ sendPc[c] = "idle")

\* C14 witness: a Send call has returned the result of its one write.
C14_Witness ==
    \E c \in Callers : sendRes[c] = "writeErr" /\ sendWrites[c] = 1 /\ sendPc[c] = "idle"

\* C15: when read returns (receive or decode failure) it has closed the
\* connection; from then on read stays returned, no handler is called, the
\* connection stays closed, nothing is dialled again, and no Send call that
\* began after read returned succeeds.
C15_ReadExitIsFinal ==
    [][/\ (readPc # "done" /\ readPc' = "done") => (~connOpen' /\ invoked' = <<>>)
       /\ readPc = "done" =>
             (readPc' = "done" /\ ~connOpen' /\ invoked' = <<>> /\ dials' = dials)
       /\ \A c \in Callers : sendAfterExit'[c] => sendRes'[c] # "ok"]_vars

\* C15 witness: read has returned and a Send call begun afterwards has
\* returned the write's error.
C15_Witness ==
    /\ readPc = "done"
    /\ \E c \in Callers :
          sendAfterExit[c] /\ sendPc[c] = "idle" /\ sendRes[c] = "writeErr"

\* C16: the discovery GET carries the four identity headers, and so does the
\* dial that follows.
C16_IdentityHeaders ==
    /\ httpGets > 0 => getHeaders = DialHeaderNames
    /\ dials > 0 => dialHeaders = DialHeaderNames

\* pingTimer.C holds a value the watchdog has not received yet.
TickPending == ~timerFired /\ now >= timerAt

\* C17: while the watchdog runs with no stop requested and its probe writes
\* succeed, it has written one ping for every period that has elapsed: with
\* the first ping written on its tick and no tick waiting to be handled, the
\* number of pings written is the number of periods elapsed.
C17_PingEveryPeriod ==
    (wdPc = "select" /\ closePc = "idle" /\ probeAt = timerAt /\ ~TickPending)
        => pings = now \div pingPeriod

\* checkPing has left its loop because a ping write returned an error.
ProbeWriteFailed == wdPc \in {"defer", "done"} /\ closePc # "returned"

\* C18: after a ping write has failed, eventually the watchdog has stopped,
\* the connection is closed and the read loop has exited.
C18_ProbeFailureTearsDown ==
    (wdPc = "defer" /\ closePc # "returned")
        ~> (wdPc = "done" /\ ~connOpen /\ readPc = "done")

\* C19: after the read loop has returned, with the owner not calling Close
\* (and the process not ended by a panic), the watchdog eventually stops.
C19_WatchdogStopsAfterReadExit ==
    (readPc = "done" /\ closePc = "idle")
        ~> (wdPc = "done" \/ closePc # "idle" \/ panic # "")

\* A full period has passed since the last ping was written and no pong has
\* arrived in it.
MissedPeriod == probeAt >= 0 /\ ~acked /\ now >= probeAt + pingPeriod

\* C20: after a missed period, as long as no ping write has failed and the
\* owner has not called Close, the watchdog is still running and the
\* connection is still open.
C20_MissKeepsClientOpen ==
    (MissedPeriod /\ closePc = "idle")
        => (ProbeWriteFailed \/ (wdPc \in {"select", "ping"} /\ connOpen))

\* The Location header of the response that has status 307: the final
\* response when it is the 307, otherwise the prior one.
RedirectLocation(r) ==
    IF r.status = StatusTemporaryRedirect THEN r.location ELSE r.prior.location

\* C21: when the handshake goes on to dial, the connect URL is built from the
\* Location of the response that has status 307, never from the Location of
\* a response with another status.
C21_LocationFromRedirect ==
    newPc = "dial" => wsURL = ConnectURL(RedirectLocation(resp))

\* checkPing has returned and its deferred function has run.
WatchdogStopped == wdPc = "done"

\* C22: the watchdog goes from running to stopped and stays stopped.  After
\* a stop request it begins one close-frame write, ends it, and only then
\* closes the connection and stops; once stopped it writes no ping and no
\* other frame, calls no miss callback and never runs again.
C22_WatchdogStopIsTerminal ==
    [][/\ (wdPc = "stopping" /\ wdPc' # wdPc) => (wdPc' = "close" /\ 0 \in Writers')
       /\ (wdPc = "close" /\ wdPc' # wdPc) => wdPc' = "defer"
       /\ (wdPc \in {"stopping", "close"} /\ connOpen /\ ~connOpen') => readPc' # readPc
       /\ (wdPc = "defer" /\ wdPc' # wdPc) => (WatchdogStopped' /\ ~connOpen')
       /\ WatchdogStopped =>
             /\ WatchdogStopped'
             /\ 0 \notin Writers'
             /\ pings' = pings
             /\ closeSent' = closeSent
             /\ pingMissCalls' = pingMissCalls]_vars

\* C22 witness: after a stop request the close frame was written and the
\* watchdog has stopped, the connection closed.
C22_Witness ==
    /\ WatchdogStopped
    /\ closePc = "returned"
    /\ closeSent
    /\ ~connOpen

====
